---- MODULE Spec2Model ----
(***************************************************************************)
(* CheckpointSaver of fimm (src/fimm/custom/timm/utils/checkpoint_saver.py) *)
(* as a state machine.  The state is the saver's five bookkeeping fields,  *)
(* its configuration, the files of the checkpoint and recovery directories *)
(* (with their inodes, because ranked and best files are hard links) and   *)
(* the pickled state record.  save_checkpoint and save_recovery advance    *)
(* one filesystem call at a time, so that the states between two calls of  *)
(* the operating system are states of the model.                           *)
(***************************************************************************)
EXTENDS Integers, Sequences, FiniteSets

VARIABLES
    decreasing,          \* config: a lower metric is better if TRUE
    max_history,         \* config: maximum number of ranked checkpoints
    checkpoint_files,    \* sequence of [path, metric], best first
    best_epoch,
    best_metric,
    curr_recovery_file,
    last_recovery_file,
    fs,                  \* path -> file (inode number and payload) or NoFile
    state_file,          \* checkpoint_saver.pkl
    pc,                  \* position inside the running operation
    arg,                 \* arguments of the running operation
    ret,                 \* outcome of the operation that ended last
    ncalls,              \* number of operations started and of crashes
    pre,                 \* history: the saver's state when the operation began
    promoted,            \* history: line 128 appended the new snapshot
    firstSeen,           \* history: metric -> epoch of the first call passing it
    epochsUsed,          \* history: number of epochs save_checkpoint was given
    recoveryUsed,        \* history: number of epochs save_recovery was given
    removeFailed         \* history: an os.remove raised and was logged

vars == <<decreasing, max_history, checkpoint_files, best_epoch, best_metric,
          curr_recovery_file, last_recovery_file, fs, state_file, pc, arg, ret,
          ncalls, pre, promoted, firstSeen, epochsUsed, recoveryUsed,
          removeFailed>>

config == <<decreasing, max_history>>
history == <<firstSeen, epochsUsed, recoveryUsed, removeFailed>>
memory == <<checkpoint_files, best_epoch, best_metric, curr_recovery_file,
            last_recovery_file>>

\* ------------------------------------------------------------------ bounds
MaxCalls == 3     \* operations started, and crashes, in one behaviour
MaxMetric == 2    \* present metrics 1..MaxMetric
MaxHistory == 3   \* max_history ranges over 1..MaxHistory
MaxBatch == 0     \* batch_idx ranges over 0..MaxBatch

\* Python's None, for an absent metric or epoch.
None == -1

\* An epoch is a name to the saver: str(epoch) goes into a file name and the
\* number is stored, never compared or computed with.  MaxCalls calls use at
\* most MaxCalls epochs, and a call takes an epoch used before or the least
\* unused one; every other behaviour is one of these with its epochs renamed.
Epochs == 0..(MaxCalls - 1)
Metrics == 1..MaxMetric
Batches == 0..MaxBatch

\* ------------------------------------------------------------------- paths
\* A path is the file name the code builds; "" is the empty string the
\* recovery pointers start with.
PathOf(kind, epoch, batch_idx) ==
    [kind |-> kind, epoch |-> epoch, batch_idx |-> batch_idx]

EmptyPath == PathOf("", 0, 0)
last_save_path == PathOf("last", 0, 0)
\* Faulty variant of tmp_save_path: the snapshot is written straight into "last".
tmp_save_path_direct == last_save_path
tmp_save_path == PathOf("tmp", 0, 0)
best_save_path == PathOf("model_best", 0, 0)
\* "-".join([save_prefix, str(epoch)]) + extension
save_path(epoch) == PathOf("checkpoint", epoch, 0)
\* "-".join([recovery_prefix, str(epoch), str(batch_idx)]) + extension
recovery_path(epoch, batch_idx) == PathOf("recovery", epoch, batch_idx)

RankedPaths == {save_path(e) : e \in Epochs}
RecoveryPaths == {recovery_path(e, b) : e \in Epochs, b \in Batches}
Paths == {tmp_save_path, last_save_path, best_save_path}
             \cup RankedPaths \cup RecoveryPaths

\* -------------------------------------------------------------- filesystem
\* A file is an inode and the snapshot torch.save wrote into it: its epoch,
\* its metric and the number of the call that wrote it.  complete is FALSE
\* between the open that truncates and the end of the write.  Paths with the
\* same inode number are hard links to one file.
NoFile == [ino |-> 0, epoch |-> None, metric |-> None, call |-> None,
           complete |-> FALSE]

exists(f, p) == p \in Paths /\ f[p].ino # 0

\* the number of a new inode: the least one no path uses
FreshIno(f) ==
    CHOOSE n \in 1..(Cardinality(Paths) + 1) :
        /\ \A p \in Paths : f[p].ino # n
        /\ \A k \in 1..(n - 1) : \E p \in Paths : f[p].ino = k

\* open(p, "wb"): truncates the inode p names (every link to it sees that),
\* or creates a new one.
OpenWb(f, p, epoch, metric, call) ==
    LET ino == IF exists(f, p) THEN f[p].ino ELSE FreshIno(f)
        new == [ino |-> ino, epoch |-> epoch, metric |-> metric, call |-> call,
                complete |-> FALSE]
    IN [q \in Paths |-> IF q = p \/ f[q].ino = ino THEN new ELSE f[q]]

\* the write has ended and the file is closed
CloseWb(f, p) ==
    [q \in Paths |-> IF f[q].ino = f[p].ino /\ exists(f, q)
                     THEN [f[q] EXCEPT !.complete = TRUE] ELSE f[q]]

unlink(f, p) == [f EXCEPT ![p] = NoFile]
rename(f, src, dst) == [f EXCEPT ![dst] = f[src], ![src] = NoFile]
link(f, src, dst) == [f EXCEPT ![dst] = f[src]]

\* ----------------------------------------------------------- pure helpers
\* self.cmp = operator.lt if decreasing else operator.gt
cmp(a, b) == IF decreasing THEN a < b ELSE a > b

Entry(path, metric) == [path |-> path, metric |-> metric]

\* Faulty variant of KeyBefore: an unstable sort, which lets an entry pass the
\* entries of equal key.
KeyBefore_or_equal(x, y) ==
    IF decreasing THEN x.metric <= y.metric ELSE x.metric >= y.metric

\* sorted(..., key=lambda x: x[1], reverse=not self.decreasing): a stable
\* sort; x goes before y only when its key is strictly before y's key.
KeyBefore(x, y) == IF decreasing THEN x.metric < y.metric ELSE x.metric > y.metric

RECURSIVE InsertSorted(_, _)
InsertSorted(s, x) ==
    IF s = <<>> THEN <<x>>
    ELSE IF KeyBefore(x, Head(s)) THEN <<x>> \o s
    ELSE <<Head(s)>> \o InsertSorted(Tail(s), x)

RECURSIVE sorted(_)
sorted(s) ==
    IF s = <<>> THEN <<>>
    ELSE InsertSorted(sorted(SubSeq(s, 1, Len(s) - 1)), s[Len(s)])

\* Comparing None with anything raises TypeError: sorted raises as soon as
\* it has to compare, that is for two or more keys one of which is None.
SortRaises(s) == Len(s) >= 2 /\ \E i \in 1..Len(s) : s[i].metric = None

\* ------------------------------------------------------------ state record
\* the saver's five state fields (__init__, lines 70-74), as one value
Fields ==
    [best_epoch |-> best_epoch,
     best_metric |-> best_metric,
     checkpoint_files |-> checkpoint_files,
     curr_recovery_file |-> curr_recovery_file,
     last_recovery_file |-> last_recovery_file]

\* Faulty variant of state_saver: the previous recovery pointer is not saved.
state_saver_stale ==
    [best_epoch |-> best_epoch,
     best_metric |-> best_metric,
     checkpoint_files |-> checkpoint_files,
     curr_recovery_file |-> curr_recovery_file,
     last_recovery_file |-> PathOf("", 0, 0)]

\* _save_self_state: the dict that is pickled
state_saver ==
    [best_epoch |-> best_epoch,
     best_metric |-> best_metric,
     checkpoint_files |-> checkpoint_files,
     curr_recovery_file |-> curr_recovery_file,
     last_recovery_file |-> last_recovery_file]

\* __init__, "# state": the fields of a saver that restored nothing
DefaultState ==
    [best_epoch |-> None,
     best_metric |-> None,
     checkpoint_files |-> <<>>,
     curr_recovery_file |-> EmptyPath,
     last_recovery_file |-> EmptyPath]

\* checkpoint_saver.pkl: absent, opened and truncated but not yet written
\* ("partial"), or holding a pickled dict ("ok")
StateFile(status, data) == [status |-> status, data |-> data]

\* ------------------------------------------------------ history variables
NoArg == [epoch |-> None, metric |-> None, batch_idx |-> None]
NoRet == [op |-> "none", kind |-> "none", best_metric |-> None, best_epoch |-> None]
NoPre == [state |-> DefaultState, fs |-> [p \in Paths |-> NoFile],
          removeFailed |-> FALSE]
Snapshot == [state |-> Fields, fs |-> fs, removeFailed |-> removeFailed]

Result(op, kind, bm, be) ==
    [op |-> op, kind |-> kind, best_metric |-> bm, best_epoch |-> be]

\* ------------------------------------------------------------------- Init
\* A saver constructed with resume=False over empty directories.
Init ==
    /\ decreasing \in BOOLEAN
    /\ max_history \in 1..MaxHistory
    /\ checkpoint_files = DefaultState.checkpoint_files
    /\ best_epoch = DefaultState.best_epoch
    /\ best_metric = DefaultState.best_metric
    /\ curr_recovery_file = DefaultState.curr_recovery_file
    /\ last_recovery_file = DefaultState.last_recovery_file
    /\ fs = [p \in Paths |-> NoFile]
    /\ state_file = StateFile("absent", DefaultState)
    /\ pc = "idle"
    /\ arg = NoArg
    /\ ret = NoRet
    /\ ncalls = 0
    /\ pre = NoPre
    /\ promoted = FALSE
    /\ firstSeen = [m \in Metrics |-> None]
    /\ epochsUsed = 0
    /\ recoveryUsed = 0
    /\ removeFailed = FALSE

\* --------------------------------------------------------- save_checkpoint
\* The call begins; _save opens tmp for writing (line 113, torch.save).
save_checkpoint ==
    \E epoch \in Epochs, metric \in Metrics \cup {None} :
        /\ pc = "idle"
        /\ ncalls < MaxCalls
        /\ epoch <= epochsUsed
        /\ epochsUsed' = IF epoch = epochsUsed THEN epochsUsed + 1 ELSE epochsUsed
        /\ UNCHANGED <<recoveryUsed, removeFailed>>
        /\ ncalls' = ncalls + 1
        /\ arg' = [epoch |-> epoch, metric |-> metric, batch_idx |-> None]
        /\ pre' = Snapshot
        /\ promoted' = FALSE
        /\ firstSeen' = IF metric # None /\ firstSeen[metric] = None
                        THEN [firstSeen EXCEPT ![metric] = epoch]
                        ELSE firstSeen
        /\ fs' = OpenWb(fs, tmp_save_path, epoch, metric, ncalls')
        /\ pc' = "sc_write"
        /\ UNCHANGED <<config, memory, state_file, ret>>

\* torch.save ends: tmp holds the whole snapshot (line 113).
sc_write ==
    /\ pc = "sc_write"
    /\ fs' = CloseWb(fs, tmp_save_path)
    /\ pc' = "sc_unlink_last"
    /\ UNCHANGED <<config, memory, state_file, arg, ret, ncalls, pre, promoted, history>>

\* if os.path.exists(last_save_path): os.unlink(last_save_path)
sc_unlink_last ==
    /\ pc = "sc_unlink_last"
    /\ fs' = IF exists(fs, last_save_path) THEN unlink(fs, last_save_path) ELSE fs
    /\ pc' = "sc_rename"
    /\ UNCHANGED <<config, memory, state_file, arg, ret, ncalls, pre, promoted, history>>

\* os.rename(tmp_save_path, last_save_path)
sc_rename ==
    /\ pc = "sc_rename"
    /\ fs' = rename(fs, tmp_save_path, last_save_path)
    /\ pc' = "sc_test"
    /\ UNCHANGED <<config, memory, state_file, arg, ret, ncalls, pre, promoted, history>>

\* lines 117-122: the promotion test.  cmp(metric, None) raises TypeError.
TestRaises(files, metric) ==
    /\ Len(files) >= max_history
    /\ metric # None
    /\ files[Len(files)].metric = None

PromotionTest(files, metric) ==
    \/ Len(files) < max_history
    \/ metric = None
    \/ cmp(metric, files[Len(files)].metric)

\* an exception leaves save_checkpoint: the caller sees it, nothing is returned
Raise(kind) ==
    /\ pc' = "done"
    /\ ret' = Result("save_checkpoint", kind, None, None)

sc_test ==
    /\ pc = "sc_test"
    /\ IF TestRaises(checkpoint_files, arg.metric)
       THEN Raise("TypeError")
       ELSE /\ pc' = IF PromotionTest(checkpoint_files, arg.metric)
                     THEN IF Len(checkpoint_files) >= max_history
                          THEN "sc_cleanup" ELSE "sc_link"
                     ELSE "sc_persist"
            /\ ret' = ret
    /\ UNCHANGED <<config, memory, fs, state_file, arg, ncalls, pre, promoted, history>>

\* _cleanup_checkpoints(trim)
Min(a, b) == IF a < b THEN a ELSE b

\* Faulty variant of delete_index: trim is forgotten, nothing is evicted.
delete_index_untrimmed(trim) == max_history

delete_index(trim) == max_history - Min(Len(checkpoint_files), trim)

CleanupReturnsEarly(trim) ==
    delete_index(trim) < 0 \/ Len(checkpoint_files) <= delete_index(trim)

to_delete(trim) ==
    {checkpoint_files[i].path : i \in (delete_index(trim) + 1)..Len(checkpoint_files)}

\* os.remove of every path of gone, except those where it raises (failed):
\* the exception is caught and logged (lines 208-212, 228-232)
RemoveAll(f, gone, failed) ==
    [p \in Paths |-> IF p \in gone /\ p \notin failed THEN NoFile ELSE f[p]]

\* Faulty variant of kept: the front of the history is cut, not its end.
kept_from_end(trim) ==
    SubSeq(checkpoint_files, Len(checkpoint_files) - delete_index(trim) + 1,
           Len(checkpoint_files))

\* line 213: self.checkpoint_files[:delete_index]
kept(trim) == SubSeq(checkpoint_files, 1, delete_index(trim))

_cleanup_checkpoints(trim) ==
    IF CleanupReturnsEarly(trim)
    THEN UNCHANGED <<fs, checkpoint_files, removeFailed>>
    ELSE /\ \E failed \in SUBSET to_delete(trim) :
                /\ fs' = RemoveAll(fs, to_delete(trim), failed)
                /\ removeFailed' = (removeFailed \/ failed # {})
         /\ checkpoint_files' = kept(trim)

\* line 124
sc_cleanup ==
    /\ pc = "sc_cleanup"
    /\ _cleanup_checkpoints(1)
    /\ pc' = "sc_link"
    /\ UNCHANGED <<config, best_epoch, best_metric, curr_recovery_file,
                   last_recovery_file, state_file, arg, ret, ncalls, pre,
                   promoted, firstSeen, epochsUsed, recoveryUsed>>

\* lines 138-140
NewBest(metric) == metric # None /\ (best_metric = None \/ cmp(metric, best_metric))

\* lines 125-142: os.link fails when save_path exists; then the append, the
\* sort (which may raise after the append) and the best-metric assignment.
sc_link ==
    /\ pc = "sc_link"
    /\ IF exists(fs, save_path(arg.epoch))
       THEN /\ Raise("FileExistsError")
            /\ UNCHANGED <<fs, memory, promoted>>
       ELSE LET appended == Append(checkpoint_files,
                                   Entry(save_path(arg.epoch), arg.metric))
            IN /\ fs' = link(fs, last_save_path, save_path(arg.epoch))
               /\ promoted' = TRUE
               /\ UNCHANGED <<curr_recovery_file, last_recovery_file>>
               /\ IF SortRaises(appended)
                  THEN /\ checkpoint_files' = appended
                       /\ Raise("TypeError")
                       /\ UNCHANGED <<best_epoch, best_metric>>
                  ELSE /\ checkpoint_files' = sorted(appended)
                       /\ ret' = ret
                       /\ IF NewBest(arg.metric)
                          THEN /\ best_epoch' = arg.epoch
                               /\ best_metric' = arg.metric
                               /\ pc' = "sc_best_unlink"
                          ELSE /\ UNCHANGED <<best_epoch, best_metric>>
                               /\ pc' = "sc_persist"
    /\ UNCHANGED <<config, state_file, arg, ncalls, pre, history>>

\* lines 144-145
sc_best_unlink ==
    /\ pc = "sc_best_unlink"
    /\ fs' = IF exists(fs, best_save_path) THEN unlink(fs, best_save_path) ELSE fs
    /\ pc' = "sc_best_link"
    /\ UNCHANGED <<config, memory, state_file, arg, ret, ncalls, pre, promoted, history>>

\* line 146
sc_best_link ==
    /\ pc = "sc_best_link"
    /\ fs' = link(fs, last_save_path, best_save_path)
    /\ pc' = "sc_persist"
    /\ UNCHANGED <<config, memory, state_file, arg, ret, ncalls, pre, promoted, history>>

\* _save_self_state, line 192: open(state_path, "wb") truncates the record
sc_persist ==
    /\ pc = "sc_persist"
    /\ state_file' = StateFile("partial", DefaultState)
    /\ pc' = "sc_dump"
    /\ UNCHANGED <<config, memory, fs, arg, ret, ncalls, pre, promoted, history>>

\* line 193: pickle.dump; line 150: the return value
sc_dump ==
    /\ pc = "sc_dump"
    /\ state_file' = StateFile("ok", state_saver)
    /\ pc' = "done"
    /\ ret' = IF best_metric = None
              THEN Result("save_checkpoint", "ok", None, None)
              ELSE Result("save_checkpoint", "ok", best_metric, best_epoch)
    /\ UNCHANGED <<config, memory, fs, arg, ncalls, pre, promoted, history>>

\* ----------------------------------------------------------- save_recovery
\* The call begins; _save opens the recovery file for writing (line 226).
save_recovery ==
    \E epoch \in Epochs, batch_idx \in Batches :
        /\ pc = "idle"
        /\ ncalls < MaxCalls
        /\ epoch <= recoveryUsed
        /\ recoveryUsed' = IF epoch = recoveryUsed THEN recoveryUsed + 1 ELSE recoveryUsed
        /\ UNCHANGED <<epochsUsed, removeFailed>>
        /\ ncalls' = ncalls + 1
        /\ arg' = [epoch |-> epoch, metric |-> None, batch_idx |-> batch_idx]
        /\ pre' = Snapshot
        /\ promoted' = FALSE
        /\ fs' = OpenWb(fs, recovery_path(epoch, batch_idx), epoch, None, ncalls')
        /\ pc' = "sr_write"
        /\ UNCHANGED <<config, memory, state_file, ret, firstSeen>>

\* torch.save ends (line 226)
sr_write ==
    /\ pc = "sr_write"
    /\ fs' = CloseWb(fs, recovery_path(arg.epoch, arg.batch_idx))
    /\ pc' = "sr_remove"
    /\ UNCHANGED <<config, memory, state_file, arg, ret, ncalls, pre, promoted, history>>

\* Faulty variant of superseded_recovery: no recovery file is ever removed.
superseded_recovery_none == EmptyPath

\* lines 227-230: the recovery file the call removes
superseded_recovery == last_recovery_file

\* lines 227-234: remove the file last_recovery_file names, rotate the pointers
sr_remove ==
    /\ pc = "sr_remove"
    /\ IF exists(fs, superseded_recovery)
       THEN \E failed \in SUBSET {superseded_recovery} :
                /\ fs' = RemoveAll(fs, {superseded_recovery}, failed)
                /\ removeFailed' = (removeFailed \/ failed # {})
       ELSE UNCHANGED <<fs, removeFailed>>
    /\ last_recovery_file' = curr_recovery_file
    /\ curr_recovery_file' = recovery_path(arg.epoch, arg.batch_idx)
    /\ pc' = "done"
    /\ ret' = Result("save_recovery", "ok", None, None)
    /\ UNCHANGED <<config, checkpoint_files, best_epoch, best_metric, state_file,
                   arg, ncalls, pre, promoted, firstSeen, epochsUsed, recoveryUsed>>

\* The caller has seen the outcome; the saver waits for the next call.
Return ==
    /\ pc = "done"
    /\ pc' = "idle"
    /\ arg' = NoArg
    /\ ret' = NoRet
    /\ pre' = NoPre
    /\ promoted' = FALSE
    /\ UNCHANGED <<config, memory, fs, state_file, ncalls, history>>

Next ==
    \/ save_checkpoint
    \/ sc_write
    \/ sc_unlink_last
    \/ sc_rename
    \/ sc_test
    \/ sc_cleanup
    \/ sc_link
    \/ sc_best_unlink
    \/ sc_best_link
    \/ sc_persist
    \/ sc_dump
    \/ save_recovery
    \/ sr_write
    \/ sr_remove
    \/ Return

Spec == Init /\ [][Next]_vars

\* ------------------------------------------------------- crash and restart
\* The process dies, between two operations or inside one: memory is lost,
\* the directories stay as they are.
Crash ==
    /\ pc # "down"
    /\ ncalls < MaxCalls
    /\ ncalls' = ncalls + 1
    /\ pc' = "down"
    /\ checkpoint_files' = DefaultState.checkpoint_files
    /\ best_epoch' = DefaultState.best_epoch
    /\ best_metric' = DefaultState.best_metric
    /\ curr_recovery_file' = DefaultState.curr_recovery_file
    /\ last_recovery_file' = DefaultState.last_recovery_file
    /\ arg' = NoArg
    /\ ret' = NoRet
    /\ pre' = NoPre
    /\ promoted' = FALSE
    /\ UNCHANGED <<config, fs, state_file, history>>

\* self.__dict__.update(state_saver): the keys of the loaded dict replace the
\* fields of the same name
DictUpdate(fields, loaded) ==
    [k \in DOMAIN fields |-> IF k \in DOMAIN loaded THEN loaded[k] ELSE fields[k]]

SetMemory(fields) ==
    /\ checkpoint_files' = fields.checkpoint_files
    /\ best_epoch' = fields.best_epoch
    /\ best_metric' = fields.best_metric
    /\ curr_recovery_file' = fields.curr_recovery_file
    /\ last_recovery_file' = fields.last_recovery_file

\* Faulty variant of LoadRaises: FileNotFoundError is not caught either.
LoadRaises_uncaught(resume) == resume /\ state_file.status # "ok"

\* lines 90-99: only FileNotFoundError is caught, so loading the record
\* raises when the record is there but truncated
LoadRaises(resume) == resume /\ state_file.status = "partial"

\* the operation name a construction leaves in ret
InitOp(resume) == IF resume THEN "__init__(resume=True)" ELSE "__init__(resume=False)"

\* __init__ over the directories as they are (lines 69-100), with the same
\* configuration.  A missing record is logged; a truncated one makes
\* pickle.load raise, and no saver is constructed.
__init__ ==
    \E resume \in BOOLEAN :
        /\ pc = "down"
        /\ IF LoadRaises(resume)
           THEN /\ ret' = Result(InitOp(resume),
                                 IF state_file.status = "partial"
                                 THEN "EOFError" ELSE "FileNotFoundError",
                                 None, None)
                /\ UNCHANGED <<pc, memory>>
           ELSE /\ ret' = Result(InitOp(resume), "ok", None, None)
                /\ pc' = "done"
                /\ SetMemory(IF resume /\ state_file.status = "ok"
                             THEN DictUpdate(DefaultState, state_file.data)
                             ELSE DefaultState)
        /\ UNCHANGED <<config, fs, state_file, arg, ncalls, pre, promoted, history>>

NextCrash == Next \/ Crash \/ __init__

SpecCrash == Init /\ [][NextCrash]_vars

\* _save_self_state() and then a new saver with resume=True and the same
\* configuration: the restart of a process that persisted its state.
PersistThenResume ==
    /\ pc = "idle"
    /\ pre' = Snapshot
    /\ state_file' = StateFile("ok", state_saver)
    /\ SetMemory(DictUpdate(DefaultState, state_file'.data))
    /\ ret' = Result("resume", "ok", None, None)
    /\ pc' = "done"
    /\ UNCHANGED <<config, fs, arg, ncalls, promoted, history>>

NextResume == Next \/ PersistThenResume

SpecResume == Init /\ [][NextResume]_vars

\* ================================================================= claims
Ended(op) == pc = "done" /\ ret.op = op
Returned(op) == Ended(op) /\ ret.kind = "ok"

\* C1: the ranked history never holds more than max_history entries, in any
\* state, whatever epochs and metrics save_checkpoint is given.
BoundedHistory == Len(checkpoint_files) <= max_history

\* C1: a save_checkpoint that found the history full, evicted and inserted
EvictedAndInserted ==
    /\ Returned("save_checkpoint")
    /\ promoted
    /\ Len(pre.state.checkpoint_files) = max_history
    /\ Len(checkpoint_files) = max_history

\* the best of the present metrics passed so far (None when there is none)
MetricsPassed == {m \in Metrics : firstSeen[m] # None}
BestPassed ==
    IF MetricsPassed = {} THEN None
    ELSE CHOOSE m \in MetricsPassed : \A n \in MetricsPassed : ~cmp(n, m)

\* C2: when a save_checkpoint has returned, best_metric is the best of all
\* present metrics ever passed and best_epoch the epoch of the first call
\* that passed it; both are None iff no present metric was passed.
MonotoneBest ==
    Returned("save_checkpoint") =>
        /\ best_metric = BestPassed
        /\ best_epoch = IF BestPassed = None THEN None ELSE firstSeen[BestPassed]

\* C3: when a save_checkpoint has ended, no entry of the ranked history is
\* out-ranked by an entry behind it.
SortOrder ==
    Ended("save_checkpoint") =>
        \A i, j \in 1..Len(checkpoint_files) :
            (/\ i < j
             /\ checkpoint_files[i].metric # None
             /\ checkpoint_files[j].metric # None)
            => ~cmp(checkpoint_files[j].metric, checkpoint_files[i].metric)

RecoveryOnDisk == {p \in RecoveryPaths : exists(fs, p)}
RecoveryPointers == {curr_recovery_file, last_recovery_file} \ {EmptyPath}

\* C4: when a save_recovery has returned (and no os.remove has failed), at
\* most two recovery files are on disk and they are the files the two
\* recovery pointers name.
RecoveryCap ==
    (Returned("save_recovery") /\ ~removeFailed) =>
        /\ Cardinality(RecoveryOnDisk) <= 2
        /\ RecoveryOnDisk = RecoveryPointers

\* C5: when save_checkpoint or save_recovery has returned, the state record
\* holds the five fields as they are in memory.
PersistedAfterEveryOperation ==
    (Returned("save_checkpoint") \/ Returned("save_recovery")) =>
        /\ state_file.status = "ok"
        /\ state_file.data = Fields

RankedOnDisk(f) == {p \in RankedPaths : exists(f, p)}

\* C6: when os.link into the ranked slot has failed (and no os.remove has
\* failed), the ranked history and the ranked files on disk are those the
\* call began with.
LinkFailureLeavesHistory ==
    (Ended("save_checkpoint") /\ ret.kind = "FileExistsError" /\ ~removeFailed) =>
        /\ checkpoint_files = pre.state.checkpoint_files
        /\ RankedOnDisk(fs) = RankedOnDisk(pre.fs)

\* a save_checkpoint has completed: it wrote the state record
SomeSaveCompleted == state_file.status = "ok"

\* C7 as stated: once a save_checkpoint has completed, a complete "last"
\* file is on disk in every state, also inside a later save_checkpoint and
\* after a crash.
LastAlwaysPresent ==
    SomeSaveCompleted =>
        (exists(fs, last_save_path) /\ fs[last_save_path].complete)

\* C7 as amended: a "last" file on disk is never partially written, and
\* in the window between os.unlink and os.rename there is no "last" file,
\* only the temp file, holding the complete new snapshot.
LastNeverPartial ==
    /\ exists(fs, last_save_path) => fs[last_save_path].complete
    /\ pc = "sc_rename" =>
        /\ ~exists(fs, last_save_path)
        /\ exists(fs, tmp_save_path)
        /\ fs[tmp_save_path].complete
        /\ fs[tmp_save_path].epoch = arg.epoch
        /\ fs[tmp_save_path].metric = arg.metric

\* C7: a later save_checkpoint stands between os.unlink and os.rename
InsideReplaceWindow == SomeSaveCompleted /\ pc = "sc_rename"

\* C8: when a save_checkpoint has returned whose metric was present and
\* out-ranked best_metric (or best_metric was unset), best_epoch and
\* best_metric are those of the call and the best file is a link to its
\* snapshot, promoted or not.
BestTrackingEveryCall ==
    (/\ Returned("save_checkpoint")
     /\ arg.metric # None
     /\ \/ pre.state.best_metric = None
        \/ cmp(arg.metric, pre.state.best_metric))
    => /\ best_metric = arg.metric
       /\ best_epoch = arg.epoch
       /\ exists(fs, best_save_path)
       /\ fs[best_save_path] = fs[last_save_path]

\* the promotion test as the claim words it, on the history the call found
OutRanksWorst(files, metric) ==
    /\ files # <<>>
    /\ files[Len(files)].metric # None
    /\ metric # None
    /\ cmp(metric, files[Len(files)].metric)

ShouldPromote(files, metric) ==
    \/ Len(files) < max_history
    \/ metric = None
    \/ OutRanksWorst(files, metric)

\* C9: when a save_checkpoint has ended (os.link did not fail), the snapshot
\* was inserted iff the history was not full, or the metric absent, or the
\* metric strictly out-ranked the worst entry; a call with an absent metric
\* has returned with its snapshot in the history.
PromotionRule ==
    (Ended("save_checkpoint") /\ ret.kind # "FileExistsError") =>
        /\ promoted <=> ShouldPromote(pre.state.checkpoint_files, arg.metric)
        /\ arg.metric = None =>
            /\ ret.kind = "ok"
            /\ \E i \in 1..Len(checkpoint_files) :
                   checkpoint_files[i] = Entry(save_path(arg.epoch), None)

RECURSIVE Digits(_)
Digits(n) == IF n < 10 THEN <<48 + n>> ELSE Digits(n \div 10) \o <<48 + (n % 10)>>

\* the part of a recovery file's name behind the common recovery_prefix:
\* "-{epoch}-{batch_idx}" and the dot of the extension (lines 224-225)
RecoveryName(p) == <<45>> \o Digits(p.epoch) \o <<45>> \o Digits(p.batch_idx) \o <<46>>

\* the order of Python strings: by the first character that differs
RECURSIVE StrLess(_, _)
StrLess(s, t) ==
    IF t = <<>> THEN FALSE
    ELSE IF s = <<>> THEN TRUE
    ELSE IF Head(s) # Head(t) THEN Head(s) < Head(t)
    ELSE StrLess(Tail(s), Tail(t))

\* lines 243-246: glob the recovery files, sort the names, return the first
find_recovery ==
    LET files == {p \in RecoveryPaths : exists(fs, p)}
    IN IF files = {} THEN EmptyPath
       ELSE CHOOSE p \in files :
                \A q \in files \ {p} : StrLess(RecoveryName(p), RecoveryName(q))

\* C11: when a save_recovery has returned, find_recovery returns the file
\* that call wrote (curr_recovery_file); with no recovery file on disk it
\* returns the empty path.
FindsLatestRecovery ==
    /\ Returned("save_recovery") => find_recovery = curr_recovery_file
    /\ RecoveryOnDisk = {} => find_recovery = EmptyPath

\* C12: once both recovery pointers are set, they name different files.
RecoveryPointersDiffer ==
    (curr_recovery_file # EmptyPath /\ last_recovery_file # EmptyPath) =>
        curr_recovery_file # last_recovery_file

\* the recovery files of a filesystem, and the file the current call writes
RecoveryFiles(f) == {p \in RecoveryPaths : exists(f, p)}
WrittenRecovery == recovery_path(arg.epoch, arg.batch_idx)

\* the recovery files on disk right after the write of the current
\* save_recovery, and the number of the call that wrote each of them
BeforeRemove == RecoveryFiles(pre.fs) \cup {WrittenRecovery}
WrittenBy(p) == IF p = WrittenRecovery THEN ncalls ELSE pre.fs[p].call

ResumeWithoutRecord ==
    (ret.op = "__init__(resume=True)" /\ state_file.status = "absent") =>
        /\ ret.kind = "ok"
        /\ pc = "done"
        /\ Fields = DefaultState

\* C14: a saver has been constructed with resume=True and there is no state
\* record (the saver before it went down inside its first save_checkpoint,
\* which left a "last" file)
ResumedWithoutRecord ==
    /\ Returned("__init__(resume=True)")
    /\ state_file.status = "absent"
    /\ exists(fs, last_save_path)

\* the history a save_checkpoint found, what is left of it when it was full
\* and its last entry goes, and the entry the call inserts
FoundHistory == pre.state.checkpoint_files
FoundFull == Len(FoundHistory) = max_history
WithoutWorst == SubSeq(FoundHistory, 1, max_history - 1)
Inserted == Entry(save_path(arg.epoch), arg.metric)
RemoveAt(s, k) == SubSeq(s, 1, k - 1) \o SubSeq(s, k + 1, Len(s))

KeptHistory == IF FoundFull THEN WithoutWorst ELSE FoundHistory

\* C16: the re-sort is stable.  When a save_checkpoint that inserted has
\* returned, the kept entries are in the order they had and the inserted
\* entry stands behind every entry of equal metric; so in every state, of two
\* entries of equal metric the one nearer the end (evicted first) is the one
\* saved later.
StableReSort ==
    /\ (Returned("save_checkpoint") /\ promoted) =>
           \E k \in 1..Len(checkpoint_files) :
               /\ checkpoint_files[k] = Inserted
               /\ RemoveAt(checkpoint_files, k) = KeptHistory
               /\ \A i \in 1..Len(checkpoint_files) :
                      (i # k /\ checkpoint_files[i].metric = arg.metric) => i < k
    /\ \A i, j \in 1..Len(checkpoint_files) :
           (i < j /\ checkpoint_files[i].metric = checkpoint_files[j].metric) =>
               fs[checkpoint_files[i].path].call < fs[checkpoint_files[j].path].call

\* C16: a save_checkpoint has inserted a snapshot whose metric equals that of
\* an entry already in the history
InsertedATie ==
    /\ Returned("save_checkpoint")
    /\ promoted
    /\ arg.metric # None
    /\ \E i \in 1..Len(KeptHistory) : KeptHistory[i].metric = arg.metric

\* an os.remove of the current call has failed (and none before it)
RemoveFailedNow == removeFailed /\ ~pre.removeFailed

\* C17: a failed deletion is not fatal.  When a save_checkpoint in which the
\* os.remove of the evicted file failed has ended, it has returned, the
\* evicted entry is gone from the history and the new snapshot is in it;
\* when a save_recovery in which the os.remove failed has ended, it has
\* returned with the pointers rotated.  Only a stale file is left.
CleanupErrorsNonFatal ==
    /\ (Ended("save_checkpoint") /\ RemoveFailedNow) =>
           /\ ret.kind = "ok"
           /\ \A i \in 1..Len(checkpoint_files) :
                  checkpoint_files[i] # FoundHistory[Len(FoundHistory)]
           /\ \E i \in 1..Len(checkpoint_files) : checkpoint_files[i] = Inserted
           /\ exists(fs, FoundHistory[Len(FoundHistory)].path)
    /\ (Ended("save_recovery") /\ RemoveFailedNow) =>
           /\ ret.kind = "ok"
           /\ curr_recovery_file = WrittenRecovery
           /\ last_recovery_file = pre.state.curr_recovery_file
           /\ exists(fs, pre.state.last_recovery_file)

\* C18: when a save_recovery has returned (and no os.remove has failed), the
\* file curr_recovery_file names is on disk, completely written, and holds
\* the snapshot this call wrote; also when the call repeated an earlier
\* (epoch, batch_idx).
CurrentRecoveryOnDisk ==
    (Returned("save_recovery") /\ ~removeFailed) =>
        /\ curr_recovery_file = WrittenRecovery
        /\ exists(fs, curr_recovery_file)
        /\ fs[curr_recovery_file].complete
        /\ fs[curr_recovery_file].epoch = arg.epoch
        /\ fs[curr_recovery_file].call = ncalls

\* the file at path p holds the complete snapshot of that epoch and metric
Holds(p, epoch, metric) ==
    /\ exists(fs, p)
    /\ fs[p].complete
    /\ fs[p].epoch = epoch
    /\ fs[p].metric = metric

\* C19: the hard links keep their content when "last" is replaced.  In every
\* state, each entry of the history names a file that holds the snapshot of
\* the epoch in its name, with the entry's metric; and outside the two steps
\* that replace the best file, the best file holds the snapshot saved at
\* best_epoch, with best_metric.
LinkedFilesKeepContent ==
    /\ \A i \in 1..Len(checkpoint_files) :
           Holds(checkpoint_files[i].path, checkpoint_files[i].path.epoch,
                 checkpoint_files[i].metric)
    /\ (best_epoch # None /\ pc \notin {"sc_best_unlink", "sc_best_link"}) =>
           Holds(best_save_path, best_epoch, best_metric)

\* C19: a save_checkpoint has replaced "last" while a ranked file and the
\* best file, written by earlier calls, are still in place
OlderLinksSurvive ==
    /\ Returned("save_checkpoint")
    /\ fs[last_save_path].call = ncalls
    /\ best_epoch # None
    /\ fs[best_save_path].call < ncalls
    /\ \E i \in 1..Len(checkpoint_files) : fs[checkpoint_files[i].path].call < ncalls

\* C20: in every state of a constructed saver, also one restarted with
\* resume=True after a crash inside a save_checkpoint, every entry of the
\* history names a file that is on disk and no two entries name the same
\* path.
HistoryFilesPresentAndDistinct ==
    pc # "down" =>
        /\ \A i \in 1..Len(checkpoint_files) : exists(fs, checkpoint_files[i].path)
        /\ \A i, j \in 1..Len(checkpoint_files) :
               i # j => checkpoint_files[i].path # checkpoint_files[j].path

====
